---- MODULE Spec2Model ----
(***************************************************************************)
(* Model of primitives/tracing/src/types.rs: the wasm tracing encoding     *)
(* model (WasmLevel, WasmValue, WasmFieldName, WasmFields, WasmValuesSet,  *)
(* WasmMetadata, WasmEntryAttributes) and the std-only bridge into the     *)
(* host `tracing` system (the ten static Metadata entries, the descriptor  *)
(* selection, Span::from and emit).                                        *)
(*                                                                         *)
(* Representation.  A byte is a number in 0..255, a Vec<u8> and a &str are *)
(* sequences of bytes, an Option<T> is a sequence of length at most one    *)
(* (<<>> is None, <<x>> is Some(x)), an enum value is a record with a tag. *)
(***************************************************************************)
EXTENDS Integers, Sequences, FiniteSets, TLC

VARIABLES
    entry,    \* the decoded WasmEntryAttributes the host holds
    last,     \* the bridge call made last: operation, entry, what it handed to the host
    nSpans,   \* number of spans the host subscriber has allocated so far
    stack,    \* the host's stack of entered spans, innermost last
    input,    \* encoding model: the native input a call site supplies
    obj,      \* encoding model: the value built from the input
    iterated, \* encoding model: what WasmFields::iter yielded, once it ran
    wire,     \* encoding model: the bytes on the boundary
    dec       \* encoding model: the result of decoding the bytes, once decoded

vars == <<entry, last, nSpans, stack, input, obj, iterated, wire, dec>>
bridgeVars == <<entry, last, nSpans, stack>>
encVars == <<input, obj, iterated, wire, dec>>

\* ------------------------------------------------------------------ bounds

\* spans the host allocates in one behaviour
MaxSpans == 2
\* depth of the host's stack of entered spans
MaxDepth == 2
\* length of the name/pair sequences FieldList and ValueSet are built from
MaxLen == 3

\* ------------------------------------------------------- sequence helpers

None == <<>>
Some(x) == <<x>>
IsSome(o) == Len(o) = 1

RECURSIVE Concat(_)
\* the concatenation of a sequence of sequences
Concat(ss) == IF ss = <<>> THEN <<>> ELSE Head(ss) \o Concat(Tail(ss))

RECURSIVE Join(_, _)
\* the pieces of ss with sep between neighbours
Join(ss, sep) ==
    IF ss = <<>> THEN <<>>
    ELSE IF Len(ss) = 1 THEN ss[1]
    ELSE ss[1] \o sep \o Join(Tail(ss), sep)

\* whether the text `needle` occurs in the text `hay`
Contains(hay, needle) ==
    \E i \in 0..(Len(hay) - Len(needle)) :
        \A j \in 1..Len(needle) : hay[i + j] = needle[j]

\* ------------------------------------------------------ ASCII text pieces

S_req == <<114, 101, 113>>                       \* "req"
S_net == <<110, 101, 116>>                       \* "net"
S_net_rs == <<110, 101, 116, 46, 114, 115>>      \* "net.rs"
S_handler == <<110, 101, 116, 58, 58, 104>>      \* "net::h"
S_status == <<115, 116, 97, 116, 117, 115>>      \* "status"
S_a == <<97>>                                    \* "a"
S_b == <<98>>                                    \* "b"
S_eacute == <<195, 169>>                         \* U+00E9, two bytes of valid UTF-8
S_FF == <<255>>                                  \* the single byte 0xFF
S_C3 == <<195>>                                  \* a lead byte with nothing after it

\* ------------------------------------------------------------- WasmLevel

WasmLevel == <<"ERROR", "WARN", "INFO", "DEBUG", "TRACE">>
Levels == {WasmLevel[i] : i \in 1..Len(WasmLevel)}

\* ------------------------------------------------------------- WasmValue

WasmValue == <<"U8", "I8", "U32", "I32", "I64", "U64", "Bool", "Str", "Formatted", "Encoded">>
ByteTags == {"Str", "Formatted", "Encoded"}
Value(tag, val) == [tag |-> tag, val |-> val]

\* ---------------------------------------------- impl From<..> for WasmValue

\* the native types with a From impl; a by-reference form has its own impl
NativeTypes == {"u8", "&i8", "&str", "&&str", "bool", "&Arguments", "i8", "i32",
                "&i32", "u32", "&u32", "u64", "i64"}

\* the type a reference refers to
Deref(ty) ==
    CASE ty = "&i8" -> "i8"
      [] ty = "&i32" -> "i32"
      [] ty = "&u32" -> "u32"
      [] ty = "&&str" -> "&str"
      [] OTHER -> ty

From_u8(u) == Value("U8", u)
From_ref_i8(inp) == Value("I8", inp)
From_str(inp) == Value("Str", inp)
From_ref_str(inp) == Value("Str", inp)
From_bool(inp) == Value("Bool", inp)
From_Arguments(inp) == Value("Formatted", inp)
\* a conversion that goes through the unsigned type of the same width
From_i8_AsU8(u) == Value("U8", u % 256)
From_i8(u) == Value("I8", u)
From_i32(u) == Value("I32", u)
From_ref_i32(u) == Value("I32", u)
From_u32(u) == Value("U32", u)
From_ref_u32(u) == Value("U32", u)
From_u64(u) == Value("U64", u)
From_i64(u) == Value("I64", u)

\* WasmValue::from(x) for x of native type ty: the impl the compiler selects
WasmValueFrom(ty, x) ==
    CASE ty = "u8" -> From_u8(x)
      [] ty = "&i8" -> From_ref_i8(x)
      [] ty = "&str" -> From_str(x)
      [] ty = "&&str" -> From_ref_str(x)
      [] ty = "bool" -> From_bool(x)
      [] ty = "&Arguments" -> From_Arguments(x)
      [] ty = "i8" -> From_i8(x)
      [] ty = "i32" -> From_i32(x)
      [] ty = "&i32" -> From_ref_i32(x)
      [] ty = "u32" -> From_u32(x)
      [] ty = "&u32" -> From_ref_u32(x)
      [] ty = "u64" -> From_u64(x)
      [] ty = "i64" -> From_i64(x)

\* ----------------------------------------------------------- WasmFieldName

\* impl From<Vec<u8>> for WasmFieldName: the bytes are taken as they are
FieldName_from_vec(v) == v
\* impl From<&str> for WasmFieldName: v.as_bytes().to_vec()
FieldName_from_str(v) == v

\* -------------------------------------------------------------- WasmFields

\* impl From<Vec<WasmFieldName>> for WasmFields
WasmFields_from_names(v) == v
\* a construction that keeps the first occurrence of every name only
WasmFields_from_strs_Dedup(v) ==
    LET firsts == {i \in 1..Len(v) : \A j \in 1..(i - 1) : v[j] # v[i]}
        nth(k) == CHOOSE i \in firsts : Cardinality({j \in firsts : j < i}) = k - 1
    IN  [k \in 1..Cardinality(firsts) |-> FieldName_from_str(v[nth(k)])]
\* impl From<Vec<&str>> for WasmFields
WasmFields_from_strs(v) == [i \in 1..Len(v) |-> FieldName_from_str(v[i])]
WasmFields_empty == <<>>
\* WasmFields::iter, collected
WasmFields_iter(f) == [i \in 1..Len(f) |-> f[i]]

\* ----------------------------------------------------------- WasmValuesSet

\* a pair (WasmFieldName, Option<WasmValue>)
Pair(k, v) == [name |-> k, value |-> v]
\* impl From<Vec<(WasmFieldName, Option<WasmValue>)>> for WasmValuesSet
WasmValuesSet_from_pairs(v) == v
\* impl From<Vec<(&&WasmFieldName, Option<WasmValue>)>> for WasmValuesSet
WasmValuesSet_from_ref_pairs(v) == [i \in 1..Len(v) |-> Pair(v[i].name, v[i].value)]
\* impl From<Vec<(&&str, Option<WasmValue>)>> for WasmValuesSet
WasmValuesSet_from_str_pairs(v) ==
    [i \in 1..Len(v) |-> Pair(FieldName_from_str(v[i].name), v[i].value)]
WasmValuesSet_empty == <<>>

\* ------------------------------------- #[derive(Encode)]: the SCALE encoding

\* the discriminant of a variant: its position in the enum, counted from 0
VariantIndex(variants, tag) == (CHOOSE i \in 1..Len(variants) : variants[i] = tag) - 1

RECURSIVE LE(_, _)
\* the w low bytes of n, least significant first (two's complement when n < 0)
LE(n, w) == IF w = 0 THEN <<>> ELSE <<n % 256>> \o LE(n \div 256, w - 1)

\* Compact<u32>, the length prefix of a Vec: one byte below 64, two below 2^14
EncodeCompact(n) ==
    IF n < 64 THEN <<n * 4>>
    ELSE IF n < 16384 THEN LE(n * 4 + 1, 2)
    ELSE LE(n * 4 + 2, 4)

\* Vec<u8>: the length, then the bytes
EncodeBytes(bs) == EncodeCompact(Len(bs)) \o bs

\* WasmLevel: the discriminant alone
EncodeLevel(l) == <<VariantIndex(WasmLevel, l)>>

\* the payload of a WasmValue, at the width of its variant
EncodePayload(v) ==
    CASE v.tag \in {"U8", "I8"} -> LE(v.val, 1)
      [] v.tag \in {"U32", "I32"} -> LE(v.val, 4)
      [] v.tag \in {"I64", "U64"} -> LE(v.val, 8)
      [] v.tag = "Bool" -> <<IF v.val THEN 1 ELSE 0>>
      [] v.tag \in ByteTags -> EncodeBytes(v.val)

\* WasmValue: the discriminant, then the payload
EncodeValue(v) == <<VariantIndex(WasmValue, v.tag)>> \o EncodePayload(v)

\* an encoding that writes nothing for an absent value
EncodeOption_NoneOmitted(o) == IF IsSome(o) THEN <<1>> \o EncodeValue(o[1]) ELSE <<>>
\* Option<WasmValue>: 0 for None, 1 and the value for Some
EncodeOption(o) == IF IsSome(o) THEN <<1>> \o EncodeValue(o[1]) ELSE <<0>>

\* WasmFieldName(Vec<u8>)
EncodeFieldName(n) == EncodeBytes(n)

\* (WasmFieldName, Option<WasmValue>): the two in order
EncodePair(p) == EncodeFieldName(p.name) \o EncodeOption(p.value)

\* WasmFields(Vec<WasmFieldName>): the length, then the names in order
EncodeFields(f) ==
    EncodeCompact(Len(f)) \o Concat([i \in 1..Len(f) |-> EncodeFieldName(f[i])])

\* WasmValuesSet(Vec<(WasmFieldName, Option<WasmValue>)>): the length, then the pairs
EncodeValuesSet(vs) ==
    EncodeCompact(Len(vs)) \o Concat([i \in 1..Len(vs) |-> EncodePair(vs[i])])

Encode(ty, v) ==
    CASE ty = "WasmLevel" -> EncodeLevel(v)
      [] ty = "WasmValue" -> EncodeValue(v)
      [] ty = "WasmFields" -> EncodeFields(v)
      [] ty = "WasmValuesSet" -> EncodeValuesSet(v)

\* ------------------------------------------------------- #[derive(Decode)]

\* the result of a decode: the value and the input left, or an error
Ok(v, rest) == [ok |-> TRUE, v |-> v, rest |-> rest]
Err == [ok |-> FALSE, v |-> <<>>, rest |-> <<>>]

Drop(bs, k) == SubSeq(bs, k + 1, Len(bs))

\* Compact<u32>: a prefix in single-byte mode is the length times four; a prefix
\* in another mode announces a length of 64 or more, which no input within the
\* bounds can supply
DecodeCompact(bs) ==
    IF bs = <<>> THEN Err
    ELSE IF bs[1] % 4 = 0 THEN Ok(bs[1] \div 4, Drop(bs, 1))
    ELSE Err

\* Vec<u8>: the length, then that many bytes
DecodeBytes(bs) ==
    LET n == DecodeCompact(bs)
    IN  IF ~n.ok \/ Len(n.rest) < n.v THEN Err
        ELSE Ok(SubSeq(n.rest, 1, n.v), Drop(n.rest, n.v))

RECURSIVE FromLE(_, _)
\* the number whose little-endian bytes are bs, the last byte read as signed or not
FromLE(bs, signed) ==
    IF Len(bs) = 1 THEN (IF signed /\ bs[1] >= 128 THEN bs[1] - 256 ELSE bs[1])
    ELSE bs[1] + 256 * FromLE(Tail(bs), signed)

\* a fixed-width integer of w bytes
DecodeInt(bs, w, signed) ==
    IF Len(bs) < w THEN Err ELSE Ok(FromLE(SubSeq(bs, 1, w), signed), Drop(bs, w))

\* bool: 0 or 1, anything else is an error
DecodeBool(bs) ==
    IF bs = <<>> \/ bs[1] > 1 THEN Err ELSE Ok(bs[1] = 1, Drop(bs, 1))

\* a decoder that falls back to the last variant on an unknown discriminant
DecodeLevel_Default(bs) ==
    IF bs = <<>> THEN Err
    ELSE IF bs[1] < Len(WasmLevel) THEN Ok(WasmLevel[bs[1] + 1], Drop(bs, 1))
    ELSE Ok("TRACE", Drop(bs, 1))

\* WasmLevel: the discriminant selects the variant, an unknown one is an error
DecodeLevel(bs) ==
    IF bs = <<>> THEN Err
    ELSE IF bs[1] < Len(WasmLevel) THEN Ok(WasmLevel[bs[1] + 1], Drop(bs, 1))
    ELSE Err

\* WasmValue: the discriminant selects the variant, whose payload follows
DecodeValue(bs) ==
    IF bs = <<>> \/ bs[1] >= Len(WasmValue) THEN Err
    ELSE LET tag == WasmValue[bs[1] + 1]
             body == Drop(bs, 1)
             p == CASE tag = "U8" -> DecodeInt(body, 1, FALSE)
                    [] tag = "I8" -> DecodeInt(body, 1, TRUE)
                    [] tag = "U32" -> DecodeInt(body, 4, FALSE)
                    [] tag = "I32" -> DecodeInt(body, 4, TRUE)
                    [] tag = "I64" -> DecodeInt(body, 8, TRUE)
                    [] tag = "U64" -> DecodeInt(body, 8, FALSE)
                    [] tag = "Bool" -> DecodeBool(body)
                    [] tag \in ByteTags -> DecodeBytes(body)
         IN  IF p.ok THEN Ok(Value(tag, p.v), p.rest) ELSE Err

\* Option<WasmValue>: 0 is None, 1 is Some, anything else is an error
DecodeOption(bs) ==
    IF bs = <<>> THEN Err
    ELSE IF bs[1] = 0 THEN Ok(None, Drop(bs, 1))
    ELSE IF bs[1] = 1
         THEN LET v == DecodeValue(Drop(bs, 1))
              IN  IF v.ok THEN Ok(Some(v.v), v.rest) ELSE Err
    ELSE Err

\* (WasmFieldName, Option<WasmValue>)
DecodePair(bs) ==
    LET n == DecodeBytes(bs)
        o == DecodeOption(n.rest)
    IN  IF n.ok /\ o.ok THEN Ok(Pair(n.v, o.v), o.rest) ELSE Err

RECURSIVE DecodeNames(_, _)
\* k field names, one after the other
DecodeNames(bs, k) ==
    IF k = 0 THEN Ok(<<>>, bs)
    ELSE LET n == DecodeBytes(bs)
             more == DecodeNames(n.rest, k - 1)
         IN  IF n.ok /\ more.ok THEN Ok(<<n.v>> \o more.v, more.rest) ELSE Err

RECURSIVE DecodePairs(_, _)
\* k pairs, one after the other
DecodePairs(bs, k) ==
    IF k = 0 THEN Ok(<<>>, bs)
    ELSE LET p == DecodePair(bs)
             more == DecodePairs(p.rest, k - 1)
         IN  IF p.ok /\ more.ok THEN Ok(<<p.v>> \o more.v, more.rest) ELSE Err

\* WasmFields: the length, then that many names
DecodeFields(bs) ==
    LET n == DecodeCompact(bs) IN IF n.ok THEN DecodeNames(n.rest, n.v) ELSE Err

\* WasmValuesSet: the length, then that many pairs
DecodeValuesSet(bs) ==
    LET n == DecodeCompact(bs) IN IF n.ok THEN DecodePairs(n.rest, n.v) ELSE Err

Decode(ty, bs) ==
    CASE ty = "WasmLevel" -> DecodeLevel(bs)
      [] ty = "WasmValue" -> DecodeValue(bs)
      [] ty = "WasmFields" -> DecodeFields(bs)
      [] ty = "WasmValuesSet" -> DecodeValuesSet(bs)

\* ------------------------------------------------- #[derive(Debug)] output

Digit(d) == <<48 + d>>

RECURSIVE ToDec(_)
\* the decimal digits of a natural number
ToDec(n) == IF n < 10 THEN Digit(n) ELSE ToDec(n \div 10) \o Digit(n % 10)

\* {:?} of an integer
DebugInt(n) == IF n < 0 THEN <<45>> \o ToDec(0 - n) ELSE ToDec(n)

\* {:?} of a bool: "true" or "false"
DebugBool(b) == IF b THEN <<116, 114, 117, 101>> ELSE <<102, 97, 108, 115, 101>>

\* {:?} of a Vec<u8>: "[115, 116]", the bytes as decimal numbers
DebugBytes(bs) ==
    <<91>> \o Join([i \in 1..Len(bs) |-> DebugInt(bs[i])], <<44, 32>>) \o <<93>>

\* the variant's name followed by "(", as derive(Debug) writes a tuple variant
DebugTag(tag) ==
    CASE tag = "U8" -> <<85, 56, 40>>
      [] tag = "I8" -> <<73, 56, 40>>
      [] tag = "U32" -> <<85, 51, 50, 40>>
      [] tag = "I32" -> <<73, 51, 50, 40>>
      [] tag = "I64" -> <<73, 54, 52, 40>>
      [] tag = "U64" -> <<85, 54, 52, 40>>
      [] tag = "Bool" -> <<66, 111, 111, 108, 40>>
      [] tag = "Str" -> <<83, 116, 114, 40>>
      [] tag = "Formatted" -> <<70, 111, 114, 109, 97, 116, 116, 101, 100, 40>>
      [] tag = "Encoded" -> <<69, 110, 99, 111, 100, 101, 100, 40>>

\* {:?} of a WasmValue: "U32(200)", "Str([97])", "Bool(true)"
DebugValue(v) ==
    DebugTag(v.tag)
    \o (IF v.tag \in ByteTags THEN DebugBytes(v.val)
        ELSE IF v.tag = "Bool" THEN DebugBool(v.val)
        ELSE DebugInt(v.val))
    \o <<41>>

\* {:?} of an Option<WasmValue>: "Some(..)" or "None"
DebugOption(o) ==
    IF IsSome(o) THEN <<83, 111, 109, 101, 40>> \o DebugValue(o[1]) \o <<41>>
    ELSE <<78, 111, 110, 101>>

\* {:?} of a WasmFieldName: "WasmFieldName([..])"
DebugFieldName(n) ==
    <<87, 97, 115, 109, 70, 105, 101, 108, 100, 78, 97, 109, 101, 40>>
    \o DebugBytes(n) \o <<41>>

\* {:?} of a (WasmFieldName, Option<WasmValue>): "(name, value)"
DebugPair(p) ==
    <<40>> \o DebugFieldName(p.name) \o <<44, 32>> \o DebugOption(p.value) \o <<41>>

\* {:?} of a WasmValuesSet: "WasmValuesSet([(..), (..)])"
DebugValuesSet(vs) ==
    <<87, 97, 115, 109, 86, 97, 108, 117, 101, 115, 83, 101, 116, 40, 91>>
    \o Join([i \in 1..Len(vs) |-> DebugPair(vs[i])], <<44, 32>>)
    \o <<93, 41>>

\* ------------------------------------------------------ std::str::from_utf8

Cont(b) == b >= 128 /\ b <= 191

RECURSIVE Utf8Valid(_)
\* whether the bytes are well-formed UTF-8, as str::from_utf8 decides it
Utf8Valid(bs) ==
    IF bs = <<>> THEN TRUE
    ELSE LET b == bs[1]
             n == Len(bs)
             rest(k) == SubSeq(bs, k + 1, n)
         IN  IF b < 128 THEN Utf8Valid(rest(1))
             ELSE IF b >= 194 /\ b <= 223
                  THEN n >= 2 /\ Cont(bs[2]) /\ Utf8Valid(rest(2))
             ELSE IF b >= 224 /\ b <= 239
                  THEN /\ n >= 3
                       /\ Cont(bs[2]) /\ Cont(bs[3])
                       /\ (b = 224 => bs[2] >= 160)
                       /\ (b = 237 => bs[2] <= 159)
                       /\ Utf8Valid(rest(3))
             ELSE IF b >= 240 /\ b <= 244
                  THEN /\ n >= 4
                       /\ Cont(bs[2]) /\ Cont(bs[3]) /\ Cont(bs[4])
                       /\ (b = 240 => bs[2] >= 144)
                       /\ (b = 244 => bs[2] <= 143)
                       /\ Utf8Valid(rest(4))
             ELSE FALSE

\* std::str::from_utf8(&bytes).unwrap_or_default(): the text, or "" when invalid
from_utf8_or_default(bs) == IF Utf8Valid(bs) THEN bs ELSE <<>>

\* ------------------------------------------------- the static Metadata table

WASM_TRACE_IDENTIFIER == "wasm_tracing"
WASM_NAME_KEY == "name"
WASM_TARGET_KEY == "target"
GENERIC_FIELDS == <<WASM_TARGET_KEY, WASM_NAME_KEY, "file", "line", "module_path", "params">>

\* tracing::Metadata::new(name, target, level, None, None, None, FieldSet, kind);
\* `static` is the identity (the address) of the static item
StaticMetadata(static, level, kind) ==
    [static |-> static, name |-> WASM_TRACE_IDENTIFIER, target |-> WASM_TRACE_IDENTIFIER,
     level |-> level, fields |-> GENERIC_FIELDS, kind |-> kind]

SPAN_ERROR_METADATA == StaticMetadata("SPAN_ERROR_METADATA", "ERROR", "SPAN")
SPAN_WARN_METADATA == StaticMetadata("SPAN_WARN_METADATA", "WARN", "SPAN")
SPAN_INFO_METADATA == StaticMetadata("SPAN_INFO_METADATA", "INFO", "SPAN")
SPAN_DEBUG_METADATA == StaticMetadata("SPAN_DEBUG_METADATA", "DEBUG", "SPAN")
SPAN_TRACE_METADATA == StaticMetadata("SPAN_TRACE_METADATA", "TRACE", "SPAN")
EVENT_ERROR_METADATA == StaticMetadata("EVENT_ERROR_METADATA", "ERROR", "EVENT")
EVENT_WARN_METADATA == StaticMetadata("EVENT_WARN_METADATA", "WARN", "EVENT")
EVENT_INFO_METADATA == StaticMetadata("EVENT_INFO_METADATA", "INFO", "EVENT")
EVENT_DEBUG_METADATA == StaticMetadata("EVENT_DEBUG_METADATA", "DEBUG", "EVENT")
EVENT_TRACE_METADATA == StaticMetadata("EVENT_TRACE_METADATA", "TRACE", "EVENT")

\* a copy-and-paste slip in one arm of the match
MetadataFrom_SlipWarnEvent(wm) ==
    CASE wm.level = "ERROR" /\ wm.is_span -> SPAN_ERROR_METADATA
      [] wm.level = "WARN" /\ wm.is_span -> SPAN_WARN_METADATA
      [] wm.level = "INFO" /\ wm.is_span -> SPAN_INFO_METADATA
      [] wm.level = "DEBUG" /\ wm.is_span -> SPAN_DEBUG_METADATA
      [] wm.level = "TRACE" /\ wm.is_span -> SPAN_TRACE_METADATA
      [] wm.level = "ERROR" /\ ~wm.is_span -> EVENT_ERROR_METADATA
      [] wm.level = "WARN" /\ ~wm.is_span -> SPAN_WARN_METADATA
      [] wm.level = "INFO" /\ ~wm.is_span -> EVENT_INFO_METADATA
      [] wm.level = "DEBUG" /\ ~wm.is_span -> EVENT_DEBUG_METADATA
      [] wm.level = "TRACE" /\ ~wm.is_span -> EVENT_TRACE_METADATA

\* a selection that matches on the level alone
MetadataFrom_LevelOnly(wm) ==
    CASE wm.level = "ERROR" -> EVENT_ERROR_METADATA
      [] wm.level = "WARN" -> EVENT_WARN_METADATA
      [] wm.level = "INFO" -> EVENT_INFO_METADATA
      [] wm.level = "DEBUG" -> EVENT_DEBUG_METADATA
      [] wm.level = "TRACE" -> EVENT_TRACE_METADATA

\* impl From<&WasmMetadata> for &'static Metadata<'static>: match (&wm.level, wm.is_span)
MetadataFrom(wm) ==
    CASE wm.level = "ERROR" /\ wm.is_span -> SPAN_ERROR_METADATA
      [] wm.level = "WARN" /\ wm.is_span -> SPAN_WARN_METADATA
      [] wm.level = "INFO" /\ wm.is_span -> SPAN_INFO_METADATA
      [] wm.level = "DEBUG" /\ wm.is_span -> SPAN_DEBUG_METADATA
      [] wm.level = "TRACE" /\ wm.is_span -> SPAN_TRACE_METADATA
      [] wm.level = "ERROR" /\ ~wm.is_span -> EVENT_ERROR_METADATA
      [] wm.level = "WARN" /\ ~wm.is_span -> EVENT_WARN_METADATA
      [] wm.level = "INFO" /\ ~wm.is_span -> EVENT_INFO_METADATA
      [] wm.level = "DEBUG" /\ ~wm.is_span -> EVENT_DEBUG_METADATA
      [] wm.level = "TRACE" /\ ~wm.is_span -> EVENT_TRACE_METADATA

\* --------------------------------------------------------------- the bridge

\* the values tracing records: a &str, a u32 (recorded as u64), a Debug rendering
StrVal(t) == [ty |-> "str", v |-> t]
U64Val(n) == [ty |-> "u64", v |-> n]
DebugVal(t) == [ty |-> "debug", v |-> t]

\* tracing_core::span::Id::from_u64(i): NonZeroU64::new(i).expect(..),
\* which panics when i is 0
Id_from_u64_panics(i) == i = 0

\* a.parent_id.map(|i| Id::from_u64(i)): whether evaluating the argument panics
ParentArgPanics(parent_id) == IsSome(parent_id) /\ Id_from_u64_panics(parent_id[1])

\* child_of(parent, ..) of tracing 0.1: Some(id) is an explicit parent, None makes
\* the span (Attributes::new_root) or event (Parent::Root) a root
Parent_child_of(parent) ==
    IF IsSome(parent) THEN [kind |-> "Explicit", id |-> parent[1]]
    ELSE [kind |-> "Root", id |-> 0]

\* tracing::valueset!{ fields, v1, v2, .. }: the i-th value is bound to the i-th
\* field of the field set, whatever the value expression is called
valueset(fields, vals) ==
    [i \in 1..Len(vals) |-> [field |-> fields[i], value |-> vals[i]]]

\* the six values in the order the macro is given them after the decoding of
\* name, target, file, module_path and the reading of line and fields
BridgeValues(a) ==
    LET name == from_utf8_or_default(a.metadata.name)
        target == from_utf8_or_default(a.metadata.target)
        file == from_utf8_or_default(a.metadata.file)
        line == a.metadata.line
        module_path == from_utf8_or_default(a.metadata.module_path)
        params == a.fields
    IN  <<StrVal(target), StrVal(name), StrVal(file), U64Val(line),
          StrVal(module_path), DebugVal(DebugValuesSet(params))>>

\* what both operations hand to the host: metadata, parent and value set
BridgeRecord(a) ==
    LET metadata == MetadataFrom(a.metadata)
    IN  [meta |-> metadata,
         parent |-> Parent_child_of(a.parent_id),
         values |-> valueset(metadata.fields, BridgeValues(a))]

NoCall == [op |-> "none", entry |-> <<>>, panicked |-> FALSE,
           spans |-> <<>>, events |-> <<>>, ctx |-> <<>>]

\* impl From<WasmEntryAttributes> for tracing::Span, called with the host having
\* allocated n spans and its stack of entered spans being ctx
SpanFromCall(a, n, ctx) ==
    IF ParentArgPanics(a.parent_id)
    THEN [op |-> "span", entry |-> a, panicked |-> TRUE,
          spans |-> <<>>, events |-> <<>>, ctx |-> ctx]
    ELSE [op |-> "span", entry |-> a, panicked |-> FALSE,
          spans |-> <<[id |-> n + 1] @@ BridgeRecord(a)>>, events |-> <<>>, ctx |-> ctx]

\* WasmEntryAttributes::emit
emitCall(a, ctx) ==
    IF ParentArgPanics(a.parent_id)
    THEN [op |-> "emit", entry |-> a, panicked |-> TRUE,
          spans |-> <<>>, events |-> <<>>, ctx |-> ctx]
    ELSE [op |-> "emit", entry |-> a, panicked |-> FALSE,
          spans |-> <<>>, events |-> <<BridgeRecord(a)>>, ctx |-> ctx]

\* ------------------------------------------------ entries given to the bridge

NameSamples == {S_req, S_FF, S_eacute}
TargetSamples == {S_net, S_FF}
FileSamples == {S_net_rs, S_C3}
ModulePathSamples == {S_handler, S_FF}
LineSamples == {0, 42}
\* parent ids: none, zero, ids of host spans, and one id the host never allocates
ParentSamples == {None} \cup {Some(i) : i \in 0..(MaxSpans + 1)}
ParamSamples ==
    { WasmValuesSet_empty,
      <<Pair(S_status, Some(Value("U32", 200)))>>,
      <<Pair(S_a, Some(Value("U8", 1))), Pair(S_b, None)>> }

\* WasmEntryAttributes { parent_id, metadata: WasmMetadata { .. }, fields }
Entry(p, l, s, n, t, f, ln, m, vs) ==
    [parent_id |-> p,
     metadata |-> [name |-> n, target |-> t, level |-> l, file |-> f, line |-> ln,
                   module_path |-> m, is_span |-> s,
                   fields |-> [i \in 1..Len(vs) |-> vs[i].name]],
     fields |-> vs]

\* the entries the host is given: every level, kind and parent with the texts of
\* one call site, and every combination of texts, line and values at one level
Entries ==
    { Entry(p, l, s, S_req, S_net, S_net_rs, 42, S_handler,
            <<Pair(S_status, Some(Value("U32", 200)))>>) :
        p \in ParentSamples, l \in Levels, s \in BOOLEAN }
    \cup
    { Entry(p, "WARN", s, n, t, f, ln, m, vs) :
        p \in {None, Some(0)}, s \in BOOLEAN, n \in NameSamples, t \in TargetSamples,
        f \in FileSamples, ln \in LineSamples, m \in ModulePathSamples,
        vs \in ParamSamples }

\* ------------------------------------------------------------------ actions

NoInput == [kind |-> "none", ty |-> "", v |-> <<>>]
NoObj == [ty |-> "none", v |-> <<>>]
EncIdle == input = NoInput /\ obj = NoObj /\ iterated = None /\ wire = <<>> /\ dec = None
BridgeIdle == entry = <<>> /\ last = NoCall /\ nSpans = 0 /\ stack = <<>>

Init ==
    /\ entry \in Entries
    /\ last = NoCall
    /\ nSpans = 0
    /\ stack = <<>>
    /\ EncIdle

\* the host converts the entry into a span; the subscriber allocates the next id
SpanFrom ==
    /\ nSpans < MaxSpans
    /\ last' = SpanFromCall(entry, nSpans, stack)
    /\ nSpans' = nSpans + Len(last'.spans)
    /\ UNCHANGED <<entry, stack>>
    /\ UNCHANGED encVars

\* the host emits the entry as an event
emit ==
    /\ last' = emitCall(entry, stack)
    /\ UNCHANGED <<entry, nSpans, stack>>
    /\ UNCHANGED encVars

\* the caller enters a span it holds: the span becomes the current one
Enter(id) ==
    /\ id \in 1..nSpans
    /\ Len(stack) < MaxDepth
    /\ \A i \in 1..Len(stack) : stack[i] # id
    /\ stack' = Append(stack, id)
    /\ UNCHANGED <<entry, last, nSpans>>
    /\ UNCHANGED encVars

\* the caller leaves the current span
Exit ==
    /\ stack # <<>>
    /\ stack' = SubSeq(stack, 1, Len(stack) - 1)
    /\ UNCHANGED <<entry, last, nSpans>>
    /\ UNCHANGED encVars

Next ==
    \/ SpanFrom
    \/ emit
    \/ \E id \in 1..MaxSpans : Enter(id)
    \/ Exit

Spec == Init /\ [][Next]_vars

\* ------------------------------------------- inputs of the encoding model

RECURSIVE SeqsUpTo(_, _)
\* the sequences over S of length at most n
SeqsUpTo(S, n) ==
    IF n = 0 THEN {<<>>}
    ELSE LET shorter == SeqsUpTo(S, n - 1)
         IN  shorter \cup {Append(q, x) : q \in shorter, x \in S}

\* names given as &str are valid UTF-8, names given as Vec<u8> are any bytes
StrNames == {S_a, S_b}
ByteNames == {S_a, S_FF}
OptionSamples == {None, Some(Value("U8", 1)), Some(Value("I32", 0 - 2))}
\* further values for the pairs of one name, by payload type
WideOptionSamples ==
    {Some(Value("I8", 0 - 1)), Some(Value("U32", 200)), Some(Value("I64", 0 - 2)),
     Some(Value("U64", 2147483647))}
BoolOptionSamples == {None, Some(Value("Bool", TRUE)), Some(Value("Bool", FALSE))}
ByteOptionSamples ==
    {Some(Value("Str", S_status)), Some(Value("Formatted", <<>>)), Some(Value("Encoded", S_FF))}

\* native values by type
NativeSamples(ty) ==
    CASE ty = "u8" -> {0, 1, 255}
      [] Deref(ty) = "i8" -> {0 - 128, 0 - 1, 127}
      [] Deref(ty) = "u32" -> {0, 200, 65536}
      [] Deref(ty) = "i32" -> {0 - 65536, 0 - 2, 200}
      [] ty = "u64" -> {0, 200, 2147483647}
      [] ty = "i64" -> {0 - 2147483647, 200}
      [] ty = "bool" -> BOOLEAN
      [] Deref(ty) = "&str" -> {<<>>, S_status, S_eacute}
      [] ty = "&Arguments" -> {<<>>, S_req}

\* values of every variant, those no From impl builds included, by payload type
IntValueSamples ==
    {Value(t, 1) : t \in {"U8", "I8", "U32", "I32", "I64", "U64"}}
    \cup {Value("U8", 255), Value("I8", 0 - 1), Value("I32", 0 - 2), Value("I64", 0 - 2),
          Value("U32", 200), Value("U64", 2147483647)}
BoolValueSamples == {Value("Bool", b) : b \in BOOLEAN}
ByteValueSamples == {Value(t, bs) : t \in ByteTags, bs \in {<<>>, S_a, S_FF}}

Input(kind, ty, v) == [kind |-> kind, ty |-> ty, v |-> v]

PairSeqs(names) == SeqsUpTo({Pair(k, o) : k \in names, o \in OptionSamples}, MaxLen)
PairSeqsOf(options) == SeqsUpTo({Pair(S_a, o) : o \in options}, MaxLen)

\* ------------------------------------------- actions of the encoding model

InitEnc ==
    /\ BridgeIdle
    /\ \/ input = Input("nothing", "", <<>>)
       \/ input \in {Input("names", "", q) : q \in SeqsUpTo(ByteNames, MaxLen)}
       \/ input \in {Input("strs", "", q) : q \in SeqsUpTo(StrNames, MaxLen)}
       \/ input \in {Input("pairs", "", q) : q \in PairSeqs(ByteNames)}
       \/ input \in {Input("pairs", "", q) : q \in PairSeqsOf(WideOptionSamples)}
       \/ input \in {Input("pairs", "", q) : q \in PairSeqsOf(BoolOptionSamples)}
       \/ input \in {Input("pairs", "", q) : q \in PairSeqsOf(ByteOptionSamples)}
       \/ input \in {Input("refpairs", "", q) : q \in PairSeqs(ByteNames)}
       \/ input \in {Input("strpairs", "", q) : q \in PairSeqs(StrNames)}
       \/ \E ty \in NativeTypes : input \in {Input("native", ty, x) : x \in NativeSamples(ty)}
       \/ input \in {Input("value", "", v) : v \in IntValueSamples}
       \/ input \in {Input("value", "", v) : v \in BoolValueSamples}
       \/ input \in {Input("value", "", v) : v \in ByteValueSamples}
       \/ input \in {Input("level", "", l) : l \in Levels}
    /\ obj = NoObj
    /\ iterated = None
    /\ wire = <<>>
    /\ dec = None

\* obj becomes a freshly built value: nothing is iterated, encoded or decoded yet
Built(ty, v) ==
    /\ obj = NoObj
    /\ obj' = [ty |-> ty, v |-> v]
    /\ UNCHANGED <<input, iterated, wire, dec>>
    /\ UNCHANGED bridgeVars

\* WasmFields::from(Vec<WasmFieldName>)
FieldsFromNames == input.kind = "names" /\ Built("WasmFields", WasmFields_from_names(input.v))
\* WasmFields::from(Vec<&str>)
FieldsFromStrs == input.kind = "strs" /\ Built("WasmFields", WasmFields_from_strs(input.v))
\* WasmFields::empty()
FieldsEmpty == input.kind = "nothing" /\ Built("WasmFields", WasmFields_empty)
\* WasmValuesSet::from(Vec<(WasmFieldName, Option<WasmValue>)>)
ValuesFromPairs ==
    input.kind = "pairs" /\ Built("WasmValuesSet", WasmValuesSet_from_pairs(input.v))
\* WasmValuesSet::from(Vec<(&&WasmFieldName, Option<WasmValue>)>)
ValuesFromRefPairs ==
    input.kind = "refpairs" /\ Built("WasmValuesSet", WasmValuesSet_from_ref_pairs(input.v))
\* WasmValuesSet::from(Vec<(&&str, Option<WasmValue>)>)
ValuesFromStrPairs ==
    input.kind = "strpairs" /\ Built("WasmValuesSet", WasmValuesSet_from_str_pairs(input.v))
\* WasmValuesSet::empty()
ValuesEmpty == input.kind = "nothing" /\ Built("WasmValuesSet", WasmValuesSet_empty)
\* WasmValue::from(x) for a native x
ValueFromNative ==
    input.kind = "native" /\ Built("WasmValue", WasmValueFrom(input.ty, input.v))
\* a WasmValue written as a variant, a WasmLevel written as a variant
ValueVariant == input.kind = "value" /\ Built("WasmValue", input.v)
LevelVariant == input.kind = "level" /\ Built("WasmLevel", input.v)

\* the call site walks the field list
Iter ==
    /\ obj.ty = "WasmFields"
    /\ iterated = None
    /\ iterated' = Some(WasmFields_iter(obj.v))
    /\ UNCHANGED <<input, obj, wire, dec>>
    /\ UNCHANGED bridgeVars

\* the value is encoded for the boundary
EncodeObj ==
    /\ obj # NoObj
    /\ wire = <<>>
    /\ wire' = Encode(obj.ty, obj.v)
    /\ UNCHANGED <<input, obj, iterated, dec>>
    /\ UNCHANGED bridgeVars

\* where the first enum discriminant of the encoding sits: the first byte of a
\* WasmLevel or WasmValue, the tag of the first pair's value in a WasmValuesSet
TagPosition ==
    CASE obj.ty \in {"WasmLevel", "WasmValue"} -> 1
      [] obj.ty = "WasmValuesSet" /\ obj.v # <<>> /\ IsSome(obj.v[1].value) ->
            1 + Len(EncodeFieldName(obj.v[1].name)) + 2
      [] OTHER -> 0

\* discriminants the bytes may arrive with: any for a WasmLevel, any outside the
\* enumerated ten for a WasmValue
ArrivingTags ==
    CASE obj.ty = "WasmLevel" -> 0..255
      [] obj.ty = "WasmValue" -> Len(WasmValue)..255
      [] OTHER -> {Len(WasmValue), 255}

\* the bytes arrive with another discriminant than the one encoded
Tamper(b) ==
    /\ wire # <<>>
    /\ dec = None
    /\ TagPosition > 0
    /\ b \in ArrivingTags
    /\ wire = Encode(obj.ty, obj.v)
    /\ wire' = [wire EXCEPT ![TagPosition] = b]
    /\ UNCHANGED <<input, obj, iterated, dec>>
    /\ UNCHANGED bridgeVars

\* the host decodes the bytes as the type that was encoded
DecodeWire ==
    /\ wire # <<>>
    /\ dec = None
    /\ dec' = Some(Decode(obj.ty, wire))
    /\ UNCHANGED <<input, obj, iterated, wire>>
    /\ UNCHANGED bridgeVars

NextEnc ==
    \/ FieldsFromNames
    \/ FieldsFromStrs
    \/ FieldsEmpty
    \/ ValuesFromPairs
    \/ ValuesFromRefPairs
    \/ ValuesFromStrPairs
    \/ ValuesEmpty
    \/ ValueFromNative
    \/ ValueVariant
    \/ LevelVariant
    \/ Iter
    \/ EncodeObj
    \/ \E b \in 0..255 : Tamper(b)
    \/ DecodeWire

SpecEnc == InitEnc /\ [][NextEnc]_vars

\* ---------------------------------------------------- the host's view of a call

\* the records the last call handed to the host: the span returned, the event delivered
Handed == last.spans \o last.events
Called == last.op # "none"
Completed == Called /\ ~last.panicked

\* the span the host treats as the parent of a record created while its stack of
\* entered spans was ctx: an explicit parent is that span, a root has none, a
\* contextual record belongs to the innermost entered span
Current(ctx) == IF ctx = <<>> THEN None ELSE Some(ctx[Len(ctx)])
HostParentOf(parent, ctx) ==
    CASE parent.kind = "Explicit" -> Some(parent.id)
      [] parent.kind = "Root" -> None
      [] parent.kind = "Contextual" -> Current(ctx)

\* the values a record binds under the field called f
Bound(rec, f) == {rec.values[i].value : i \in {j \in 1..Len(rec.values) : rec.values[j].field = f}}

\* ------------------------------------------------------------------- C1

\* C1: descriptor selection is total and injective over the ten (level, is_span)
\* pairs: the descriptor selected for the entry has the entry's level and is of
\* kind SPAN exactly when is_span is true, and no other pair selects that descriptor.
C1_SelectionTotalInjective ==
    LET d == MetadataFrom(entry.metadata)
    IN  /\ d.level = entry.metadata.level
        /\ (d.kind = "SPAN") <=> entry.metadata.is_span
        /\ d.kind \in {"SPAN", "EVENT"}
        /\ \A rec \in {Handed[i] : i \in 1..Len(Handed)} :
              /\ rec.meta.level = entry.metadata.level
              /\ (rec.meta.kind = "SPAN") <=> entry.metadata.is_span
        /\ \A l \in Levels, s \in BOOLEAN :
              MetadataFrom([entry.metadata EXCEPT !.level = l, !.is_span = s]).static = d.static
                  => (l = entry.metadata.level /\ s = entry.metadata.is_span)

\* an event was delivered against the WARN/event descriptor
C1_Witness ==
    /\ last.op = "emit"
    /\ Len(last.events) = 1
    /\ entry.metadata.level = "WARN" /\ ~entry.metadata.is_span
    /\ last.events[1].meta.static = "EVENT_WARN_METADATA"

\* ------------------------------------------------------------------- C2

\* C2: parent linkage: with parent_id Some(id) the record is a child of the host
\* span id; with parent_id None it is a child of the span current on the host at
\* the time of the call (and has no parent only when no span is current).
C2_ParentLinkage ==
    Completed =>
        \A i \in 1..Len(Handed) :
            HostParentOf(Handed[i].parent, last.ctx) =
                (IF IsSome(entry.parent_id) THEN Some(entry.parent_id[1]) ELSE Current(last.ctx))

\* the half of C2 the code does implement: an explicit parent is forwarded as it is
ExplicitParentForwarded ==
    Completed /\ IsSome(entry.parent_id) =>
        \A i \in 1..Len(Handed) : HostParentOf(Handed[i].parent, last.ctx) = entry.parent_id

\* ------------------------------------------------------------------- C3

\* C3: the bridge is infallible: whatever the entry (any parent_id, Some(0) and
\* unknown ids included), a call does not panic and forwards the explicit parent id.
C3_Infallible ==
    Called =>
        /\ ~last.panicked
        /\ Len(Handed) = 1
        /\ IsSome(entry.parent_id) => Handed[1].parent = [kind |-> "Explicit", id |-> entry.parent_id[1]]

\* the only panic of the bridge is the one of Id::from_u64 on Some(0)
PanicsOnlyOnZeroParent ==
    Called => (last.panicked <=> entry.parent_id = Some(0))

\* ------------------------------------------------------------------- C4

\* the text a byte field is shown as when it degrades to empty on invalid UTF-8
Degraded(bs) == IF Utf8Valid(bs) THEN bs ELSE <<>>

\* the four text fields read as the claim says
DegradedFields(rec) ==
    /\ Bound(rec, "name") = {StrVal(Degraded(entry.metadata.name))}
    /\ Bound(rec, "target") = {StrVal(Degraded(entry.metadata.target))}
    /\ Bound(rec, "file") = {StrVal(Degraded(entry.metadata.file))}
    /\ Bound(rec, "module_path") = {StrVal(Degraded(entry.metadata.module_path))}
    /\ Bound(rec, "line") = {U64Val(entry.metadata.line)}
    /\ Bound(rec, "params") = {DebugVal(DebugValuesSet(entry.fields))}

\* C4: degrade-to-empty: each of name, target, file and module_path is decoded on
\* its own, an invalid one reads as the empty string, the others (line and params
\* included) keep their values, and the span/event is still created/emitted.
C4_DegradeToEmpty ==
    Called => (Len(Handed) = 1 /\ DegradedFields(Handed[1]))

\* what holds of every call that does not panic
DegradeToEmptyWhenCompleted ==
    Completed => (Len(Handed) = 1 /\ DegradedFields(Handed[1]))

\* ------------------------------------------------------------------- C5

\* the six fields are bound, each once and under its own name
SixFieldsBound(rec) ==
    /\ Len(rec.values) = 6
    /\ {rec.values[i].field : i \in 1..6} =
          {"target", "name", "file", "line", "module_path", "params"}
    /\ Bound(rec, "target") = {StrVal(from_utf8_or_default(entry.metadata.target))}
    /\ Bound(rec, "name") = {StrVal(from_utf8_or_default(entry.metadata.name))}
    /\ Bound(rec, "file") = {StrVal(from_utf8_or_default(entry.metadata.file))}
    /\ Bound(rec, "line") = {U64Val(entry.metadata.line)}
    /\ Bound(rec, "module_path") = {StrVal(from_utf8_or_default(entry.metadata.module_path))}
    /\ \E t \in Bound(rec, "params") : t.ty = "debug"

\* the text shows every field name and every supplied number of the ValueSet
ShowsNamesAndValues(text, vs) ==
    \A i \in 1..Len(vs) :
        /\ Contains(text, vs[i].name)
        /\ (IsSome(vs[i].value) /\ vs[i].value[1].tag \notin (ByteTags \cup {"Bool"}))
              => Contains(text, DebugInt(vs[i].value[1].val))

\* C5: field binding: a call binds exactly the six fields of GENERIC_FIELDS, each
\* under its own name, and "params" is the debug rendering of the ValueSet, which
\* contains every field name and supplied value ("status" and "200").
C5_FieldBinding ==
    Completed =>
        \A i \in 1..Len(Handed) :
            /\ SixFieldsBound(Handed[i])
            /\ \A t \in Bound(Handed[i], "params") : ShowsNamesAndValues(t.v, entry.fields)

\* what the code does: the six bindings hold and "params" shows the supplied
\* numbers
SixFieldsWhenCompleted ==
    Completed =>
        \A i \in 1..Len(Handed) :
            /\ SixFieldsBound(Handed[i])
            /\ Bound(Handed[i], "params") = {DebugVal(DebugValuesSet(entry.fields))}

\* ------------------------------------------------------------------ C10

\* C10 as amended: the descriptor follows the entry's (level, is_span) pair and not
\* the operation: whatever emit delivers and whatever span construction returns is
\* built against the descriptor of the entry's level whose kind is SPAN exactly
\* when is_span is true; emit hands the host at most one event and no span, span
\* construction at most one span and no event.
C10_KindFollowsFlag ==
    Called =>
        /\ last.op = "emit" => (last.spans = <<>> /\ Len(last.events) <= 1)
        /\ last.op = "span" => (last.events = <<>> /\ Len(last.spans) <= 1)
        /\ Completed => Len(Handed) = 1
        /\ \A i \in 1..Len(Handed) :
              /\ Handed[i].meta.level = entry.metadata.level
              /\ Handed[i].meta.kind = (IF entry.metadata.is_span THEN "SPAN" ELSE "EVENT")

\* emit delivered an event for an entry flagged as a span
C10_Witness ==
    /\ last.op = "emit"
    /\ Len(last.events) = 1
    /\ entry.metadata.is_span
    /\ last.events[1].meta.kind = "SPAN"

\* C10: operation and descriptor kind agree whatever the is_span flag: an event
\* delivered by emit is built against an EVENT descriptor of the entry's level, a
\* span returned by span construction against a SPAN descriptor of that level.
C10_OperationKindAgree ==
    Called =>
        /\ \A i \in 1..Len(last.events) :
              /\ last.events[i].meta.kind = "EVENT"
              /\ last.events[i].meta.level = entry.metadata.level
        /\ \A i \in 1..Len(last.spans) :
              /\ last.spans[i].meta.kind = "SPAN"
              /\ last.spans[i].meta.level = entry.metadata.level
        /\ last.op = "emit" => last.spans = <<>>
        /\ last.op = "span" => last.events = <<>>

\* ------------------------------------------------------------------- C6

Untampered == wire # <<>> /\ wire = Encode(obj.ty, obj.v)

\* C6: encode followed by decode is the identity on ValueSet and FieldList: the
\* decoded sequence has the same length, the same names in the same positions,
\* Some(value) with an equal value and tag exactly where the input had Some(value),
\* and None exactly where the input had None.
C6_RoundTrip ==
    (dec # None /\ Untampered /\ obj.ty \in {"WasmFields", "WasmValuesSet"}) =>
        LET r == dec[1]
        IN  /\ r.ok
            /\ r.rest = <<>>
            /\ Len(r.v) = Len(obj.v)
            /\ obj.ty = "WasmFields" => \A i \in 1..Len(obj.v) : r.v[i] = obj.v[i]
            /\ obj.ty = "WasmValuesSet" =>
                  \A i \in 1..Len(obj.v) :
                      /\ r.v[i].name = obj.v[i].name
                      /\ IsSome(r.v[i].value) <=> IsSome(obj.v[i].value)
                      /\ IsSome(obj.v[i].value) =>
                            /\ r.v[i].value[1].tag = obj.v[i].value[1].tag
                            /\ r.v[i].value[1].val = obj.v[i].value[1].val

\* [("a", Some(U8(1))), ("b", None)] came back from the wire as those two pairs
C6_Witness ==
    /\ obj.ty = "WasmValuesSet"
    /\ input.kind = "strpairs"
    /\ input.v = <<Pair(S_a, Some(Value("U8", 1))), Pair(S_b, None)>>
    /\ wire = <<8, 4, 97, 1, 0, 1, 4, 98, 0>>
    /\ dec # None
    /\ dec[1].ok
    /\ dec[1].v = <<Pair(S_a, Some(Value("U8", 1))), Pair(S_b, None)>>

\* ------------------------------------------------------------------- C7

\* C7: construction preserves input order exactly: a WasmFields built from a
\* sequence of names iterates over exactly those names, in that order, duplicates
\* kept; a WasmValuesSet built from a sequence of pairs holds exactly those pairs
\* in that order; names of invalid UTF-8 are kept; the empty constructors yield
\* length 0.
C7_ConstructionPreservesOrder ==
    /\ (obj.ty = "WasmFields" /\ input.kind \in {"names", "strs"}) =>
          /\ Len(obj.v) = Len(input.v)
          /\ iterated # None =>
                /\ Len(iterated[1]) = Len(input.v)
                /\ \A i \in 1..Len(input.v) : iterated[1][i] = input.v[i]
    /\ (obj.ty = "WasmValuesSet" /\ input.kind \in {"pairs", "refpairs", "strpairs"}) =>
          /\ Len(obj.v) = Len(input.v)
          /\ \A i \in 1..Len(input.v) :
                /\ obj.v[i].name = input.v[i].name
                /\ obj.v[i].value = input.v[i].value
    /\ (obj # NoObj /\ input.kind = "nothing") =>
          /\ Len(obj.v) = 0
          /\ iterated # None => Len(iterated[1]) = 0

\* ["b", "a", "b"] was built into a WasmFields and iterated as ["b", "a", "b"]
C7_Witness ==
    /\ input.kind = "strs"
    /\ input.v = <<S_b, S_a, S_b>>
    /\ iterated = Some(<<S_b, S_a, S_b>>)

\* ------------------------------------------------------------------- C8

\* C8: the five WasmLevel variants and the ten WasmValue variants encode with
\* distinct discriminants (0..4 and 0..9, in the order of declaration), and bytes
\* whose discriminant is outside that set decode to an error, never to a variant.
C8_UnknownDiscriminantRejected ==
    /\ (Untampered /\ obj.ty = "WasmLevel") =>
          /\ wire[1] \in 0..4
          /\ WasmLevel[wire[1] + 1] = obj.v
          /\ \A l \in Levels \ {obj.v} : EncodeLevel(l)[1] # wire[1]
    /\ (Untampered /\ obj.ty = "WasmValue") =>
          /\ wire[1] \in 0..9
          /\ WasmValue[wire[1] + 1] = obj.v.tag
          /\ \A t \in {WasmValue[i] : i \in 1..10} \ {obj.v.tag} :
                VariantIndex(WasmValue, t) # wire[1]
    /\ (dec # None /\ obj.ty = "WasmLevel") =>
          IF wire[1] \in 0..4
          THEN dec[1].ok /\ dec[1].v = WasmLevel[wire[1] + 1]
          ELSE ~dec[1].ok
    /\ (dec # None /\ obj.ty = "WasmValue" /\ wire[1] \notin 0..9) => ~dec[1].ok
    /\ (dec # None /\ obj.ty = "WasmValuesSet" /\ ~Untampered) => ~dec[1].ok

\* a WasmLevel arrived with discriminant 5 and a decode of it was attempted
C8_Witness ==
    /\ obj.ty = "WasmLevel"
    /\ wire = <<5>>
    /\ dec # None
    /\ ~dec[1].ok

\* ------------------------------------------------------------------- C9

\* the variant of the same signedness and width as the native type
VariantOf(ty) ==
    CASE ty = "u8" -> "U8"
      [] ty = "i8" -> "I8"
      [] ty = "u32" -> "U32"
      [] ty = "i32" -> "I32"
      [] ty = "u64" -> "U64"
      [] ty = "i64" -> "I64"
      [] ty = "bool" -> "Bool"
      [] ty = "&str" -> "Str"
      [] ty = "&Arguments" -> "Formatted"

\* C9: conversion into WasmValue keeps type, width and value: the variant is the
\* one of the input's signedness and width (a reference converts as its referent),
\* the payload equals the input, and no input of another type or width converts
\* to the same variant.
C9_ConversionKeepsTypeAndValue ==
    (obj.ty = "WasmValue" /\ input.kind = "native") =>
        /\ obj.v.tag = VariantOf(Deref(input.ty))
        /\ obj.v.val = input.v
        /\ \A ty \in NativeTypes :
              Deref(ty) # Deref(input.ty) => WasmValueFrom(ty, input.v).tag # obj.v.tag

\* the i8 -1 was converted and is I8(-1)
C9_Witness ==
    /\ input.kind = "native"
    /\ input.ty = "i8"
    /\ input.v = 0 - 1
    /\ obj.ty = "WasmValue"
    /\ obj.v.tag = "I8"
    /\ obj.v.val = 0 - 1

====
